---------------------------- MODULE Spec2Model ----------------------------
(***************************************************************************)
(* The two calculation engines of wevest-planners:                         *)
(*   "goals"    - the Goals Planner engine (binary-search optimizer with   *)
(*                Social Security offset, final simulate call),            *)
(*   "optimize" - the Optimize My Savings engine (caller-supplied budget,  *)
(*                second avalanche pass, proportional college split).      *)
(*                                                                         *)
(* Money is held in tenths of a currency unit (integers); the JavaScript   *)
(* numbers are doubles, so every product and quotient is modelled by its   *)
(* floor in tenths.                                                        *)
(* Annual rates are held in basis points (2200 = 22% = 0.22).              *)
(***************************************************************************)
EXTENDS Integers, Sequences, FiniteSets, TLC

(***************************************************************************)
(* Arithmetic on non-negative integers that never leaves 32 bits.          *)
(***************************************************************************)
Min(a, b) == IF a <= b THEN a ELSE b
Max(a, b) == IF a >= b THEN a ELSE b
Min3(a, b, c) == Min(a, Min(b, c))

\* the largest integer TLC's arithmetic holds
MaxInt == 2 * 1073741823 + 1

RECURSIVE MulDivQR(_, _, _, _)
\* <<quotient, remainder>> of a*b by d, by long division over the base-B digits of b;
\* needs B*d + B*a <= MaxInt
MulDivQR(a, b, d, B) ==
  IF b = 0 THEN <<0, 0>>
  ELSE LET h == MulDivQR(a, b \div B, d, B)
           t == B * h[2] + (b % B) * a
       IN <<B * h[1] + t \div d, t % d>>

\* the largest digit base that keeps MulDivQR(a, _, d, _) within 32 bits
DigitBase(a, d) ==
  IF a <= MaxInt \div 32 /\ d <= MaxInt \div 32 THEN 16
  ELSE IF a <= MaxInt \div 8 /\ d <= MaxInt \div 8 THEN 4
  ELSE 2

\* floor(a*b/d) for a, b >= 0 and d > 0
MulDiv(a, b, d) ==
  IF a = 0 \/ b = 0 THEN 0
  ELSE IF a <= MaxInt \div b THEN (a * b) \div d
  ELSE IF d - 1 <= MaxInt \div b THEN (a \div d) * b + ((a % d) * b) \div d
  ELSE IF a <= b THEN MulDivQR(a, b, d, DigitBase(a, d))[1]
  ELSE MulDivQR(b, a, d, DigitBase(b, d))[1]

\* 1.0 in the fixed-point scale used for Math.pow results
FIX == 10000000
\* a monthly rate is annualRate / 12; with the rate in basis points that is bp / RateDen
RateDen == 12 * 10000
\* money units per currency unit
Scale == 10
Dollars(n) == n * Scale

RECURSIVE Pow(_, _)
\* Math.pow(f, n) for a fixed-point base f >= 1.0 and an integer n >= 0
Pow(f, n) ==
  IF n = 0 THEN FIX
  ELSE LET h  == Pow(f, n \div 2)
           sq == MulDiv(h, h, FIX)
       IN IF n % 2 = 1 THEN MulDiv(sq, f, FIX) ELSE sq

\* Math.pow(1 + annualRate / 12, months)
PowRate(annualRate, months) == Pow(FIX + MulDiv(FIX, annualRate, RateDen), months)

\* x * (1 + annualRate / 12): one month of compounding
Grow(x, annualRate) == x + MulDiv(x, annualRate, RateDen)

\* x * pct / 100
Pct(x, pct) == MulDiv(x, pct, 100)

\* Math.round of an amount, in whole currency units
Round(x) == (x + Scale \div 2) \div Scale

(***************************************************************************)
(* Financial formulas                                                      *)
(***************************************************************************)
FV(pv, annualRate, months) ==
  IF months <= 0 \/ pv = 0 THEN pv
  ELSE MulDiv(pv, PowRate(annualRate, months), FIX)

PMTforFV(fv, annualRate, months) ==
  IF months <= 0 \/ fv <= 0 THEN 0
  ELSE IF annualRate = 0 THEN fv \div months
  ELSE MulDiv(MulDiv(fv, FIX, PowRate(annualRate, months) - FIX), annualRate, RateDen)

PVAnnuity(pmt, annualRate, months) ==
  IF months <= 0 \/ pmt = 0 THEN 0
  ELSE IF annualRate = 0 THEN pmt * months
  ELSE LET inv == MulDiv(FIX, FIX, PowRate(annualRate, months))
       IN MulDiv(MulDiv(pmt, RateDen, annualRate), FIX - inv, FIX)

\* variant: the principal spread over the months, interest forgotten
LoanPMTNoInterest(principal, annualRate, months) ==
  IF months <= 0 \/ principal <= 0 THEN 0 ELSE principal \div months

LoanPMT(principal, annualRate, months) ==
  IF months <= 0 \/ principal <= 0 THEN 0
  ELSE IF annualRate = 0 THEN principal \div months
  ELSE LET inv == MulDiv(FIX, FIX, PowRate(annualRate, months))
       IN MulDiv(MulDiv(principal, FIX, FIX - inv), annualRate, RateDen)

(***************************************************************************)
(* Program constants                                                       *)
(***************************************************************************)
\* TAX_RATE = 0.28, in percent
TAX_RATE == 28
\* RETIRE_DRAWDOWN_RATE = 0.04 and COLLEGE_INFLATION = 0.05, in basis points
RETIRE_DRAWDOWN_RATE == 400
COLLEGE_INFLATION == 500
\* the fixed nominal growth of the brokerage balance, 0.07, in basis points
BrokerageRate == 700
\* the floor of the simulated horizon in months
HorizonFloor == 480
\* iteration caps of the two search loops
MaxIterGoals == 60
MaxIterOptimize == 40

\* Social Security table (rates in percent)
SS == [bendPoint1 |-> Dollars(1226), bendPoint2 |-> Dollars(7391),
       rate1 |-> 90, rate2 |-> 32, rate3 |-> 15,
       maxBenefitFRA |-> Dollars(4018), fra |-> 67, era |-> 62, maxAge |-> 70,
       delayCredit |-> 8, spousalMult |-> 150]

getSSBenefit(income, married, retireAge) ==
  LET mi  == income \div 12
      raw == IF mi <= SS.bendPoint1 THEN Pct(mi, SS.rate1)
             ELSE IF mi <= SS.bendPoint2
               THEN Pct(SS.bendPoint1, SS.rate1) + Pct(mi - SS.bendPoint1, SS.rate2)
             ELSE Pct(SS.bendPoint1, SS.rate1) + Pct(SS.bendPoint2 - SS.bendPoint1, SS.rate2)
                  + Pct(mi - SS.bendPoint2, SS.rate3)
      pia == Min(raw, SS.maxBenefitFRA)
      benefit == IF married THEN Pct(pia, SS.spousalMult) ELSE pia
      me  == (SS.fra - retireAge) * 12
      k   == Min(retireAge - SS.fra, 3)
  IN IF retireAge < SS.fra /\ retireAge >= SS.era
       THEN IF me <= 36 THEN MulDiv(benefit, 900 - 5 * me, 900)
            ELSE MulDiv(benefit, 228 - me, 240)
     ELSE IF retireAge > SS.fra /\ retireAge <= SS.maxAge
       THEN MulDiv(benefit, (100 + SS.delayCredit) ^ k, 100 ^ k)
     ELSE benefit

\* Rate of return by time horizon, in basis points
getROR(years) == IF years > 10 THEN 700 ELSE IF years > 5 THEN 500 ELSE 300

calculateCollegeTarget(costPerYearToday, collegeYears, yearsUntilCollege) ==
  LET monthsUntil == yearsUntilCollege * 12
      futureCostPerYear == FV(costPerYearToday, COLLEGE_INFLATION, monthsUntil)
  IN [futureCostPerYear |-> futureCostPerYear,
      pvNeeded |-> PVAnnuity(futureCostPerYear \div 12, RETIRE_DRAWDOWN_RATE, collegeYears * 12)]

(***************************************************************************)
(* calculate: the goals derived once per request                           *)
(***************************************************************************)
Engines == {"goals", "optimize"}

\* the defaults the handler substitutes for optional fields
Defaults(engine) ==
  [emergencyBal |-> 0, emergencyMonths |-> 3,
   ccBal |-> 0, ccApr |-> 2200, ccPayoffYears |-> 2,
   slBal |-> 0, slApr |-> 650, slPayoffYears |-> 10,
   autoBal |-> 0, autoApr |-> 750, autoPayoffYears |-> 4,
   currentAge |-> 35, retireAge |-> 65, retireIncomePct |-> 80, lifeExpectancy |-> 90,
   retirementBal |-> 0, has401k |-> FALSE, matchPercent |-> 50, matchUpTo |-> 6,
   hasKids |-> FALSE, numKids |-> 0, kidAges |-> <<>>,
   collegeCostYear |-> Dollars(40000), collegeYears |-> 4, collegeBal |-> 0,
   brokerageBal |-> 0]
  @@ (IF engine = "goals"
        THEN [married |-> FALSE, useFinancialAid |-> FALSE, aidPercent |-> 25]
        ELSE <<>>)

afterTaxMonthly(in) == Pct(in.income \div 12, 100 - TAX_RATE)
emergencyTarget(in) == afterTaxMonthly(in) * in.emergencyMonths
emergencyGap(in) == Max(0, emergencyTarget(in) - in.emergencyBal)
emergencyMonthlyContrib(in) ==
  IF emergencyGap(in) > 0 THEN Max(Dollars(100), emergencyGap(in) \div 6) ELSE 0

Debt(name, bal, apr, years) ==
  [name |-> name, balance |-> bal, apr |-> apr, months |-> years * 12,
   monthlyPmt |-> LoanPMT(bal, apr, years * 12)]

RECURSIVE InsertByApr(_, _)
\* d placed after every entry whose APR is at least its own (a stable descending sort)
InsertByApr(sorted, d) ==
  IF sorted = <<>> THEN <<d>>
  ELSE IF Head(sorted).apr >= d.apr THEN <<Head(sorted)>> \o InsertByApr(Tail(sorted), d)
  ELSE <<d>> \o sorted

debts(in) ==
  LET cc   == IF in.ccBal > 0
                THEN <<Debt("Credit Card", in.ccBal, in.ccApr, in.ccPayoffYears)>> ELSE <<>>
      auto == IF in.autoBal > 0
                THEN <<Debt("Auto Loan", in.autoBal, in.autoApr, in.autoPayoffYears)>> ELSE <<>>
      sl   == IF in.slBal > 0
                THEN <<Debt("Student Loan", in.slBal, in.slApr, in.slPayoffYears)>> ELSE <<>>
      pushed == cc \o auto \o sl
      RECURSIVE Sorted(_)
      Sorted(k) == IF k = 0 THEN <<>> ELSE InsertByApr(Sorted(k - 1), pushed[k])
  IN Sorted(Len(pushed))

RECURSIVE SumOver(_, _)
\* reduce((s, x) => s + x[field], 0)
SumOver(seq, field) ==
  IF seq = <<>> THEN 0 ELSE Head(seq)[field] + SumOver(Tail(seq), field)

yearsToRetire(in) == Max(1, in.retireAge - in.currentAge)
monthsToRetire(in) == yearsToRetire(in) * 12
accumulationROR(in) == getROR(yearsToRetire(in))

\* retirement target of the goals engine: income need net of Social Security
retireTargetGoals(in) ==
  LET retireIncomeAnnual == Pct(in.income, in.retireIncomePct)
      ssStartAge == Max(in.retireAge, SS.era)
      ssAnnual == getSSBenefit(in.income, in.married, ssStartAge) * 12
      incomeNeededAnnual == Max(0, retireIncomeAnnual - ssAnnual)
      monthsWithSS == (in.lifeExpectancy - ssStartAge) * 12
      withSS == PVAnnuity(incomeNeededAnnual \div 12, RETIRE_DRAWDOWN_RATE, monthsWithSS)
  IN IF in.retireAge < SS.era
       THEN withSS + PVAnnuity(retireIncomeAnnual \div 12, RETIRE_DRAWDOWN_RATE,
                               (SS.era - in.retireAge) * 12)
       ELSE withSS

\* retirement target of the optimize engine: no Social Security
retireTargetOptimize(in) ==
  PVAnnuity(Pct(in.income, in.retireIncomePct) \div 12, RETIRE_DRAWDOWN_RATE,
            Max(1, in.lifeExpectancy - in.retireAge) * 12)

retireTarget(engine, in) ==
  IF engine = "goals" THEN retireTargetGoals(in) ELSE retireTargetOptimize(in)

retireMonthlyNeeded(engine, in) ==
  LET retireFVofCurrent == FV(in.retirementBal, accumulationROR(in), monthsToRetire(in))
      retireGap == Max(0, retireTarget(engine, in) - retireFVofCurrent)
  IN PMTforFV(retireGap, accumulationROR(in), monthsToRetire(in))

monthlyMatchableContrib(in) ==
  IF in.has401k THEN Pct(in.income, in.matchUpTo) \div 12 ELSE 0
monthlyMatchReceived(in) ==
  IF in.has401k THEN Pct(monthlyMatchableContrib(in), in.matchPercent) ELSE 0

\* kidAges[i] || 0
KidAge(in, i) == IF i <= Len(in.kidAges) THEN in.kidAges[i] ELSE 0

collegeGoal(engine, in, i) ==
  LET age == KidAge(in, i)
      yearsUntil == Max(1, 18 - age)
      monthsUntil == yearsUntil * 12
      ror == getROR(yearsUntil)
      effectiveCost == IF engine = "goals" /\ in.useFinancialAid
                         THEN Pct(in.collegeCostYear, 100 - in.aidPercent)
                         ELSE in.collegeCostYear
      target == calculateCollegeTarget(effectiveCost, in.collegeYears, yearsUntil).pvNeeded
      perChildSaved == in.collegeBal \div in.numKids
      gap == Max(0, target - FV(perChildSaved, ror, monthsUntil))
      common == [childNum |-> i, monthsUntil |-> monthsUntil, ror |-> ror,
                 target |-> target, monthly |-> PMTforFV(gap, ror, monthsUntil)]
  IN IF engine = "goals" THEN common @@ [currentSaved |-> perChildSaved]
     ELSE common @@ [balance |-> perChildSaved]

collegeGoals(engine, in) ==
  IF in.hasKids /\ in.numKids > 0
    THEN [i \in 1..in.numKids |-> collegeGoal(engine, in, i)]
    ELSE <<>>

naiveTotalMonthly(engine, in) ==
  LET sum == emergencyMonthlyContrib(in) + SumOver(debts(in), "monthlyPmt")
             + monthlyMatchableContrib(in) + SumOver(collegeGoals(engine, in), "monthly")
             + Max(0, retireMonthlyNeeded(engine, in) - monthlyMatchableContrib(in)
                      - monthlyMatchReceived(in))
  IN IF engine = "goals" THEN sum ELSE Max(Dollars(100), sum)

RECURSIVE MaxOver(_, _, _)
MaxOver(seq, field, least) ==
  IF seq = <<>> THEN least ELSE Max(Head(seq)[field], MaxOver(Tail(seq), field, least))

\* everything simulate and the search read, computed once
Goals(engine, in) ==
  LET ds == debts(in)
      cg == collegeGoals(engine, in)
  IN [engine |-> engine,
      emergencyBal |-> in.emergencyBal, retirementBal |-> in.retirementBal,
      brokerageBal |-> in.brokerageBal, collegeBal |-> in.collegeBal,
      numKids |-> in.numKids, currentAge |-> in.currentAge,
      afterTaxMonthly |-> afterTaxMonthly(in),
      emergencyTarget |-> emergencyTarget(in),
      debts |-> ds,
      monthsToRetire |-> monthsToRetire(in),
      accumulationROR |-> accumulationROR(in),
      retireTarget |-> retireTarget(engine, in),
      has401k |-> in.has401k, matchPercent |-> in.matchPercent,
      monthlyMatchableContrib |-> monthlyMatchableContrib(in),
      hasKids |-> in.hasKids,
      collegeGoals |-> cg,
      naiveTotalMonthly |-> naiveTotalMonthly(engine, in)]

(***************************************************************************)
(* simulate: one month of the loop body                                    *)
(*                                                                         *)
(* A working state w holds the balances of the call, the running           *)
(* `available` and `alloc`, the amounts the buckets claimed this month.    *)
(***************************************************************************)
NoAlloc == [emergency |-> 0, debts |-> 0, match401k |-> 0, matchBonus |-> 0,
            extraDebt |-> 0, college |-> 0, retirement |-> 0, brokerage |-> 0]

\* x >= t * pct / 100, exactly
AtLeastPct(x, t, pct) ==
  LET q == MulDiv(t, pct, 100)
  IN x > q \/ (x = q /\ ((t % 100) * pct) % 100 = 0)

\* the copies simulate works on
SimStart(g) ==
  [month |-> 0,
   emergency |-> g.emergencyBal,
   debtStates |-> g.debts,
   retirement |-> g.retirementBal,
   collegeAccts |->
     IF g.hasKids /\ Len(g.collegeGoals) > 0
       THEN [i \in 1..Len(g.collegeGoals) |->
               LET c == g.collegeGoals[i]
               IN [monthsUntil |-> c.monthsUntil, ror |-> c.ror, target |-> c.target,
                   monthly |-> c.monthly,
                   balance |-> IF g.engine = "goals" THEN c.currentSaved
                               ELSE IF c.balance # 0 THEN c.balance
                               ELSE g.collegeBal \div g.numKids]]
       ELSE <<>>,
   brokerage |-> g.brokerageBal,
   timeline |-> <<>>,
   available |-> 0,
   alloc |-> NoAlloc]

\* variant: no floor under the horizon
maxMonthsNoFloor(g) ==
  Max(g.monthsToRetire,
      Max(MaxOver(g.debts, "months", 0),
          IF g.hasKids THEN MaxOver(g.collegeGoals, "monthsUntil", 0) ELSE 0))

maxMonths(g) ==
  Max(g.monthsToRetire,
      Max(MaxOver(g.debts, "months", 0),
          Max(IF g.hasKids THEN MaxOver(g.collegeGoals, "monthsUntil", 0) ELSE 0,
              HorizonFloor)))

\* variant: a debt's interest is charged on its starting balance
GrowthOnPrincipal(g, month, s) ==
  IF month = 0 THEN s
  ELSE [s EXCEPT
         !.debtStates = [i \in DOMAIN s.debtStates |->
            [s.debtStates[i] EXCEPT
               !.balance = @ + Grow(g.debts[i].balance, s.debtStates[i].apr)
                             - g.debts[i].balance]],
         !.retirement = IF month <= g.monthsToRetire THEN Grow(@, g.accumulationROR) ELSE @,
         !.collegeAccts = [i \in DOMAIN s.collegeAccts |->
            IF month < s.collegeAccts[i].monthsUntil
              THEN [s.collegeAccts[i] EXCEPT !.balance = Grow(@, s.collegeAccts[i].ror)]
              ELSE s.collegeAccts[i]],
         !.brokerage = Grow(@, BrokerageRate)]

\* variant: the retirement balance keeps compounding after the retirement month
GrowthRetirementAlways(g, month, s) ==
  IF month = 0 THEN s
  ELSE [s EXCEPT
         !.debtStates = [i \in DOMAIN s.debtStates |->
            IF s.debtStates[i].balance > 0
              THEN [s.debtStates[i] EXCEPT !.balance = Grow(@, s.debtStates[i].apr)]
              ELSE s.debtStates[i]],
         !.retirement = Grow(@, g.accumulationROR),
         !.collegeAccts = [i \in DOMAIN s.collegeAccts |->
            IF month < s.collegeAccts[i].monthsUntil
              THEN [s.collegeAccts[i] EXCEPT !.balance = Grow(@, s.collegeAccts[i].ror)]
              ELSE s.collegeAccts[i]],
         !.brokerage = Grow(@, BrokerageRate)]

\* Growth (skipped at month 0)
Growth(g, month, s) ==
  IF month = 0 THEN s
  ELSE [s EXCEPT
         !.debtStates = [i \in DOMAIN s.debtStates |->
            IF s.debtStates[i].balance > 0
              THEN [s.debtStates[i] EXCEPT !.balance = Grow(@, s.debtStates[i].apr)]
              ELSE s.debtStates[i]],
         !.retirement = IF month <= g.monthsToRetire THEN Grow(@, g.accumulationROR) ELSE @,
         !.collegeAccts = [i \in DOMAIN s.collegeAccts |->
            IF month < s.collegeAccts[i].monthsUntil
              THEN [s.collegeAccts[i] EXCEPT !.balance = Grow(@, s.collegeAccts[i].ror)]
              ELSE s.collegeAccts[i]],
         !.brokerage = Grow(@, BrokerageRate)]

\* 1. Emergency Fund: the amount claimed
EmergencyAmt(g, emergency, available) ==
  LET gap == g.emergencyTarget - emergency
      cap == Max(Dollars(100), gap \div 6)
  IN IF g.engine = "goals" THEN Min(available, cap) ELSE Min3(available, gap, cap)

\* variant: the bucket does not look at the target
EmergencyFundAlways(g, w) ==
  IF w.available > 0
    THEN LET amt == EmergencyAmt(g, w.emergency, w.available)
         IN [w EXCEPT !.emergency = @ + amt, !.available = @ - amt,
                      !.alloc.emergency = amt]
    ELSE w

EmergencyFund(g, w) ==
  IF w.emergency < g.emergencyTarget /\ w.available > 0
    THEN LET amt == EmergencyAmt(g, w.emergency, w.available)
         IN [w EXCEPT !.emergency = @ + amt, !.available = @ - amt,
                      !.alloc.emergency = amt]
    ELSE w

\* 2. the scheduled payment of one debt
DebtPmt(d, available) == Min3(available, d.monthlyPmt, d.balance)
\* 4. (optimize engine) the extra payment of one debt
ExtraPmt(d, available) == Min(available, d.balance)

RECURSIVE DebtPaymentsUnclamped(_, _)
\* variant: the scheduled payment is made in full whatever the balance left
DebtPaymentsUnclamped(w, k) ==
  IF k > Len(w.debtStates) THEN w
  ELSE LET d == w.debtStates[k]
       IN IF d.balance > 0 /\ w.available > 0
            THEN LET pmt == Min(w.available, d.monthlyPmt)
                 IN DebtPaymentsUnclamped([w EXCEPT !.debtStates[k].balance = @ - pmt,
                                                    !.available = @ - pmt,
                                                    !.alloc.debts = @ + pmt], k + 1)
            ELSE DebtPaymentsUnclamped(w, k + 1)

RECURSIVE DebtPayments(_, _)
\* for (let d of debtStates), from debt k on
DebtPayments(w, k) ==
  IF k > Len(w.debtStates) THEN w
  ELSE LET d == w.debtStates[k]
       IN IF d.balance > 0 /\ w.available > 0
            THEN LET pmt == DebtPmt(d, w.available)
                 IN DebtPayments([w EXCEPT !.debtStates[k].balance = Max(0, @ - pmt),
                                           !.available = @ - pmt,
                                           !.alloc.debts = @ + pmt], k + 1)
            ELSE DebtPayments(w, k + 1)

RECURSIVE ExtraDebtPayoffCapped(_, _)
\* variant: the extra payment of a debt is capped at its scheduled payment
ExtraDebtPayoffCapped(w, k) ==
  IF k > Len(w.debtStates) THEN w
  ELSE LET d == w.debtStates[k]
       IN IF d.balance > 0 /\ w.available > 0
            THEN LET x == Min3(w.available, d.monthlyPmt, d.balance)
                 IN ExtraDebtPayoffCapped([w EXCEPT !.debtStates[k].balance = Max(0, @ - x),
                                                    !.available = @ - x,
                                                    !.alloc.extraDebt = @ + x], k + 1)
            ELSE ExtraDebtPayoffCapped(w, k + 1)

RECURSIVE ExtraDebtPayoff(_, _)
ExtraDebtPayoff(w, k) ==
  IF k > Len(w.debtStates) THEN w
  ELSE LET d == w.debtStates[k]
       IN IF d.balance > 0 /\ w.available > 0
            THEN LET x == ExtraPmt(d, w.available)
                 IN ExtraDebtPayoff([w EXCEPT !.debtStates[k].balance = Max(0, @ - x),
                                              !.available = @ - x,
                                              !.alloc.extraDebt = @ + x], k + 1)
            ELSE ExtraDebtPayoff(w, k + 1)

\* variant: the match is still captured in the retirement month
Match401kThrough(g, month, w) ==
  IF g.has401k /\ w.available > 0 /\ month <= g.monthsToRetire
    THEN LET contrib == Min(w.available, g.monthlyMatchableContrib)
             bonus   == Pct(contrib, g.matchPercent)
         IN [w EXCEPT !.retirement = @ + contrib + bonus, !.available = @ - contrib,
                      !.alloc.match401k = contrib, !.alloc.matchBonus = bonus]
    ELSE w

\* 3. 401k Match
Match401k(g, month, w) ==
  IF g.has401k /\ w.available > 0 /\ month < g.monthsToRetire
    THEN LET contrib == Min(w.available, g.monthlyMatchableContrib)
             bonus   == Pct(contrib, g.matchPercent)
         IN [w EXCEPT !.retirement = @ + contrib + bonus, !.available = @ - contrib,
                      !.alloc.match401k = contrib, !.alloc.matchBonus = bonus]
    ELSE w

RECURSIVE CollegeGoals(_, _, _)
\* College Savings of the goals engine: each child's steady monthly amount
CollegeGoals(month, w, k) ==
  IF k > Len(w.collegeAccts) THEN w
  ELSE LET c == w.collegeAccts[k]
       IN IF w.available <= 0 \/ month >= c.monthsUntil
            THEN CollegeGoals(month, w, k + 1)
            ELSE LET contrib == Min(w.available, c.monthly)
                 IN CollegeGoals(month,
                                 [w EXCEPT !.collegeAccts[k].balance = @ + contrib,
                                           !.available = @ - contrib,
                                           !.alloc.college = @ + contrib], k + 1)

RECURSIVE CollegeSplit(_, _, _, _)
\* for (let c of active): at most pk and 1.5 times the steady amount each
CollegeSplit(month, w, pk, k) ==
  IF k > Len(w.collegeAccts) THEN w
  ELSE LET c == w.collegeAccts[k]
       IN IF month < c.monthsUntil
            THEN LET a == Min(pk, MulDiv(c.monthly, 3, 2))
                 IN CollegeSplit(month,
                                 [w EXCEPT !.collegeAccts[k].balance = @ + a,
                                           !.available = @ - a,
                                           !.alloc.college = @ + a], pk, k + 1)
            ELSE CollegeSplit(month, w, pk, k + 1)

\* College Savings of the optimize engine: an even split over the active children
CollegeOptimize(month, w) ==
  LET active == {k \in DOMAIN w.collegeAccts : month < w.collegeAccts[k].monthsUntil}
  IN IF active # {} /\ w.available > 0
       THEN CollegeSplit(month, w, w.available \div Cardinality(active), 1)
       ELSE w

CollegeSavings(g, month, w) ==
  IF g.engine = "goals"
    THEN IF g.hasKids THEN CollegeGoals(month, w, 1) ELSE w
    ELSE IF g.hasKids /\ Len(w.collegeAccts) > 0 THEN CollegeOptimize(month, w) ELSE w

\* variant: the sweep stops one month early
AdditionalRetirementEarly(g, month, w) ==
  IF w.available > 0 /\ month + 1 < g.monthsToRetire
    THEN [w EXCEPT !.retirement = @ + w.available, !.alloc.retirement = w.available,
                   !.available = 0]
    ELSE w

\* variant: available is not set to 0 after the sweep
AdditionalRetirementKeeps(g, month, w) ==
  IF w.available > 0 /\ month < g.monthsToRetire
    THEN [w EXCEPT !.retirement = @ + w.available, !.alloc.retirement = w.available]
    ELSE w

\* Additional Retirement
AdditionalRetirement(g, month, w) ==
  IF w.available > 0 /\ month < g.monthsToRetire
    THEN [w EXCEPT !.retirement = @ + w.available, !.alloc.retirement = w.available,
                   !.available = 0]
    ELSE w

\* Brokerage overflow
BrokerageOverflow(w) ==
  IF w.available > 0
    THEN [w EXCEPT !.brokerage = @ + w.available, !.alloc.brokerage = w.available]
    ELSE w

\* variant: the extra debt pass runs before the match bucket
AllocateExtraFirst(g, month, w) ==
  LET w1 == EmergencyFund(g, w)
      w2 == DebtPayments(w1, 1)
      w3 == IF g.engine = "optimize" THEN ExtraDebtPayoff(w2, 1) ELSE w2
      w4 == Match401k(g, month, w3)
      w5 == CollegeSavings(g, month, w4)
      w6 == AdditionalRetirement(g, month, w5)
  IN BrokerageOverflow(w6)

\* the priority allocation of one month, in the engine's bucket order
Allocate(g, month, w) ==
  LET w1 == EmergencyFund(g, w)
      w2 == DebtPayments(w1, 1)
      w3 == Match401k(g, month, w2)
      w4 == IF g.engine = "optimize" THEN ExtraDebtPayoff(w3, 1) ELSE w3
      w5 == CollegeSavings(g, month, w4)
      w6 == AdditionalRetirement(g, month, w5)
  IN BrokerageOverflow(w6)

\* Yearly snapshot
TimelineEntry(g, month, w) ==
  LET td == SumOver(w.debtStates, "balance")
      tc == SumOver(w.collegeAccts, "balance")
      entry == [age |-> g.currentAge + month \div 12,
                emergency |-> Round(w.emergency), totalDebt |-> Round(td),
                retirement |-> Round(w.retirement), college |-> Round(tc),
                brokerage |-> Round(w.brokerage),
                netWorth |-> Round(w.emergency + w.retirement + tc + w.brokerage - td)]
  IN IF g.engine = "goals" THEN entry @@ [month |-> month] ELSE entry

\* variant: no entry for month 0
SnapshotFromYearOne(g, month, w) ==
  IF month % 12 = 0 /\ month > 0
    THEN [w EXCEPT !.timeline = Append(@, TimelineEntry(g, month, w))]
    ELSE w

Snapshot(g, month, w) ==
  IF month % 12 = 0 THEN [w EXCEPT !.timeline = Append(@, TimelineEntry(g, month, w))]
  ELSE w

\* growth, allocation and snapshot of month s.month
MonthBody(g, s, budget) ==
  Snapshot(g, s.month,
           Allocate(g, s.month,
                    [Growth(g, s.month, s) EXCEPT !.available = budget, !.alloc = NoAlloc]))

\* Goal check
RetireThreshold(g) == IF g.engine = "goals" THEN 90 ELSE 95
eMet(g, w) == AtLeastPct(w.emergency, g.emergencyTarget, 95)
dMet(w) == \A i \in DOMAIN w.debtStates : w.debtStates[i].balance < Dollars(1)
\* variant: the comparison turned round
retireFundedFlipped(g, w) ==
  w.retirement <= MulDiv(g.retireTarget, RetireThreshold(g), 100)
retireFunded(g, w) == AtLeastPct(w.retirement, g.retireTarget, RetireThreshold(g))
rMet(g, month, w) == month >= g.monthsToRetire /\ retireFunded(g, w)
cMet(g, month, w) ==
  g.hasKids =>
    \A i \in DOMAIN w.collegeAccts :
      ~(month >= w.collegeAccts[i].monthsUntil
        /\ ~AtLeastPct(w.collegeAccts[i].balance, w.collegeAccts[i].target, 90))

\* variants of the test: the debts, or the retirement balance, left out
AllGoalsMetNoDebts(g, month, w) ==
  eMet(g, w) /\ rMet(g, month, w) /\ cMet(g, month, w) /\ month >= g.monthsToRetire
AllGoalsMetNoRetire(g, month, w) ==
  eMet(g, w) /\ dMet(w) /\ cMet(g, month, w) /\ month >= g.monthsToRetire

\* variant: the month is not tested
AllGoalsMetAnyMonth(g, month, w) ==
  eMet(g, w) /\ dMet(w) /\ retireFunded(g, w) /\ cMet(g, month, w)

\* the test of the early return
AllGoalsMet(g, month, w) ==
  eMet(g, w) /\ dMet(w) /\ rMet(g, month, w) /\ cMet(g, month, w)
  /\ month >= g.monthsToRetire

\* college shortfall of the final evaluation (optimize engine)
cShort(g, w) ==
  IF g.hasKids
    THEN SumOver([i \in DOMAIN w.collegeAccts |->
                   [short |-> IF ~AtLeastPct(w.collegeAccts[i].balance,
                                             w.collegeAccts[i].target, 90)
                                THEN w.collegeAccts[i].target - w.collegeAccts[i].balance
                                ELSE 0]], "short")
    ELSE 0

finalCMet(g, w) ==
  IF g.engine = "goals"
    THEN g.hasKids =>
           \A i \in DOMAIN w.collegeAccts :
             AtLeastPct(w.collegeAccts[i].balance, w.collegeAccts[i].target, 90)
    ELSE cShort(g, w) = 0

\* variant: the retirement balance is not looked at
FinalSuccessNoRetire(g, w) ==
  eMet(g, w) /\ dMet(w) /\ finalCMet(g, w)

\* the success flag computed when the horizon is exhausted
FinalSuccess(g, w) ==
  eMet(g, w) /\ dMet(w) /\ retireFunded(g, w) /\ finalCMet(g, w)

(***************************************************************************)
(* Requests                                                                *)
(***************************************************************************)
\* a request body carries at most MaxOptional of the optional field groups
MaxOptional == 2
\* and at most MaxKids children
MaxKids == 1

OptionalGroups ==
  {[emergencyBal |-> Dollars(10000)],
   [ccBal |-> Dollars(10000)],
   [ccBal |-> Dollars(10000), ccPayoffYears |-> 0],
   [slBal |-> Dollars(2000), slApr |-> 2400],
   [has401k |-> TRUE],
   [retirementBal |-> Dollars(100000), brokerageBal |-> Dollars(1000)]}
  \cup {[hasKids |-> TRUE, numKids |-> n] : n \in 1..MaxKids}

RECURSIVE Merge(_)
\* the fields of a set of groups in one record
Merge(groups) ==
  IF groups = {} THEN <<>>
  ELSE LET grp == CHOOSE x \in groups : TRUE IN grp @@ Merge(groups \ {grp})

\* no two groups of a body set the same field
Disjoint(groups) ==
  \A x, y \in groups : x # y => DOMAIN x \cap DOMAIN y = {}

Incomes == {0, Dollars(36000)}
MonthlyBudgets == {0, Dollars(500)}

\* the JSON values of the two fields the handler type-checks
Num(n) == [typeof |-> "number", value |-> n]
Str(x) == [typeof |-> "string", value |-> x]

ValidBodies(engine) ==
  {[income |-> Num(inc)] @@ Merge(gs) @@ mb :
     inc \in Incomes,
     gs \in {x \in SUBSET OptionalGroups : Cardinality(x) <= MaxOptional /\ Disjoint(x)},
     mb \in IF engine = "goals" THEN {<<>>}
            ELSE {[monthlyBudget |-> Num(b)] : b \in MonthlyBudgets}}

\* the JSON value null (typeof null is 'object')
JsonNull == [typeof |-> "object", isNull |-> TRUE]

\* bodies with a valid income and budget whose kidAges is null: reading
\* kidAges.length throws
ThrowingBodies(engine) ==
  {[income |-> Num(Dollars(36000)), hasKids |-> TRUE, numKids |-> 1,
    kidAges |-> JsonNull] @@ mb :
     mb \in IF engine = "goals" THEN {<<>>} ELSE {[monthlyBudget |-> Num(Dollars(500))]}}

\* bodies the validation rejects
InvalidBodies(engine) ==
  {[emergencyBal |-> 0], [income |-> Str("36000")], [income |-> Num(-1)]}
  \cup (IF engine = "goals" THEN {}
        ELSE {[income |-> Num(Dollars(36000))],
              [income |-> Num(Dollars(36000)), monthlyBudget |-> Str("500")],
              [income |-> Num(Dollars(36000)), monthlyBudget |-> Num(-1)]})

\* event.json is JSON text: `parses` tells whether JSON.parse accepts it, `json` is
\* the object it yields
Events(engine) ==
  {[httpMethod |-> "GET", parses |-> TRUE, json |-> <<>>],
   [httpMethod |-> "GET", parses |-> FALSE, json |-> <<>>],
   [httpMethod |-> "POST", parses |-> FALSE, json |-> <<>>],
   [httpMethod |-> "POST", parses |-> TRUE, json |-> JsonNull]}
  \cup {[httpMethod |-> "POST", parses |-> TRUE, json |-> b] :
          b \in ValidBodies(engine) \cup InvalidBodies(engine)
                \cup ThrowingBodies(engine)}

\* typeof input[f] !== 'number' || input[f] < 0
Invalid(body, f) ==
  IF f \notin DOMAIN body THEN TRUE
  ELSE IF body[f].typeof # "number" THEN TRUE
  ELSE body[f].value < 0

\* sanitizedInput.kidAges.length throws a TypeError
KidAgesThrows(engine, body) ==
  IF "kidAges" \in DOMAIN body
    THEN /\ body.kidAges = JsonNull
         /\ (body @@ Defaults(engine)).hasKids /\ (body @@ Defaults(engine)).numKids > 0
    ELSE FALSE

\* { ...defaults, ...input } and the padding of kidAges
Sanitize(engine, body) ==
  LET plain  == [f \in DOMAIN body |->
                   IF f \in {"income", "monthlyBudget"} THEN body[f].value ELSE body[f]]
      merged == plain @@ Defaults(engine)
  IN IF merged.hasKids /\ merged.numKids > 0 /\ Len(merged.kidAges) < merged.numKids
       THEN [merged EXCEPT !.kidAges = @ \o [i \in 1..(merged.numKids - Len(@)) |-> 0]]
       ELSE merged

(***************************************************************************)
(* The program: handler, calculate, the search loop and simulate           *)
(***************************************************************************)
VARIABLES
  pc,            \* control location
  engine,        \* which of the two engines serves the request
  event,         \* the request
  g,             \* the goals calculate derived (debts, collegeGoals, targets, ...)
  lo, hi,        \* the search bracket (lo2, hi2 in the optimize engine)
  bestBudget,    \* bestBudget (optBudget in the optimize engine)
  bestTimeline,  \* bestTimeline of the goals engine
  iter,          \* the loop counter i
  caller,        \* which call of simulate is running
  budget,        \* its argument
  sim,           \* its local state
  result,        \* its return value
  simResult,     \* simulate(monthlyBudget) of the optimize engine
  evals,         \* every <<budget, success>> simulate has returned so far
  response,      \* the handler's return value
  probe,         \* how many replayed calls of simulate the harness has made
  pair,          \* two calls of simulate run side by side by the harness
  mids           \* log: every <<mid, success>> of the search loop so far, in order

vars == <<pc, engine, event, g, lo, hi, bestBudget, bestTimeline, iter, caller,
          budget, sim, result, simResult, evals, response, probe, pair, mids>>

None == <<>>

Init ==
  /\ engine \in Engines
  /\ event \in Events(engine)
  /\ pc = "handler"
  /\ g = None /\ sim = None /\ result = None /\ simResult = None /\ response = None
  /\ lo = 0 /\ hi = 0 /\ bestBudget = 0 /\ iter = 0 /\ budget = 0
  /\ bestTimeline = <<>>
  /\ caller = "none"
  /\ evals = {}
  /\ probe = 0 /\ pair = None
  /\ mids = <<>>

harnessVars == <<probe, pair, mids>>
calcVars == <<g, lo, hi, bestBudget, bestTimeline, iter, caller, budget, sim, result,
              simResult, evals, harnessVars>>

ErrorBody(msg) == [error |-> msg]

\* if (event.httpMethod !== 'POST') return 405
MethodNotAllowed ==
  /\ pc = "handler" /\ event.httpMethod # "POST"
  /\ response' = [statusCode |-> 405, body |-> ErrorBody("Method not allowed")]
  /\ pc' = "done"
  /\ UNCHANGED <<engine, event>> /\ UNCHANGED calcVars

\* JSON.parse throws: the catch block answers 500
ParseError ==
  /\ pc = "handler" /\ event.httpMethod = "POST" /\ ~event.parses
  /\ response' = [statusCode |-> 500, body |-> ErrorBody("Calculation error")]
  /\ pc' = "done"
  /\ UNCHANGED <<engine, event>> /\ UNCHANGED calcVars

\* input is null: reading input.income throws, the catch block answers 500
NullInput ==
  /\ pc = "handler" /\ event.httpMethod = "POST" /\ event.parses
  /\ event.json = JsonNull
  /\ response' = [statusCode |-> 500, body |-> ErrorBody("Calculation error")]
  /\ pc' = "done"
  /\ UNCHANGED <<engine, event>> /\ UNCHANGED calcVars

\* the validation passes and the padding of kidAges throws: the catch block
\* answers 500
SanitizeError ==
  /\ pc = "handler" /\ event.httpMethod = "POST" /\ event.parses
  /\ event.json # JsonNull
  /\ ~Invalid(event.json, "income")
  /\ engine = "optimize" => ~Invalid(event.json, "monthlyBudget")
  /\ KidAgesThrows(engine, event.json)
  /\ response' = [statusCode |-> 500, body |-> ErrorBody("Calculation error")]
  /\ pc' = "done"
  /\ UNCHANGED <<engine, event>> /\ UNCHANGED calcVars

\* Input validation
InvalidInput ==
  /\ pc = "handler" /\ event.httpMethod = "POST" /\ event.parses
  /\ event.json # JsonNull
  /\ \/ /\ Invalid(event.json, "income")
        /\ response' = [statusCode |-> 400, body |-> ErrorBody("Invalid income")]
     \/ /\ ~Invalid(event.json, "income")
        /\ engine = "optimize" /\ Invalid(event.json, "monthlyBudget")
        /\ response' = [statusCode |-> 400, body |-> ErrorBody("Invalid monthlyBudget")]
  /\ pc' = "done"
  /\ UNCHANGED <<engine, event>> /\ UNCHANGED calcVars

\* the bracket of the binary search
SearchLo(naive) == Max(Dollars(100), MulDiv(naive, 3, 10))
SearchHi(afterTax, naive) == Max(Pct(afterTax, 95), naive * 2)

\* the state calculate is in when simulate has been defined: the goals derived, the
\* bracket set, and (optimize engine) simulate(monthlyBudget) called
Derived(gg, monthlyBudget) ==
  /\ g' = gg
  /\ lo' = SearchLo(gg.naiveTotalMonthly)
  /\ hi' = SearchHi(gg.afterTaxMonthly, gg.naiveTotalMonthly)
  /\ bestBudget' = SearchHi(gg.afterTaxMonthly, gg.naiveTotalMonthly)
  /\ IF gg.engine = "optimize"
       THEN /\ pc' = "simulate" /\ caller' = "fixed"
            /\ budget' = monthlyBudget /\ sim' = SimStart(gg)
       ELSE /\ pc' = "search" /\ UNCHANGED <<caller, budget, sim>>

FixedBudget(in) == IF "monthlyBudget" \in DOMAIN in THEN in.monthlyBudget ELSE 0

\* calculate, up to the first call of simulate
Calculate ==
  /\ pc = "handler" /\ event.httpMethod = "POST" /\ event.parses
  /\ event.json # JsonNull
  /\ ~Invalid(event.json, "income")
  /\ engine = "optimize" => ~Invalid(event.json, "monthlyBudget")
  /\ ~KidAgesThrows(engine, event.json)
  /\ Derived(Goals(engine, Sanitize(engine, event.json)),
             FixedBudget(Sanitize(engine, event.json)))
  /\ UNCHANGED <<engine, event, bestTimeline, iter, result, simResult, evals, response>>
  /\ UNCHANGED harnessVars

\* variant: debtStates is the debts array itself, and emergency the starting balance
GoalsAliased(goals, w) ==
  [goals EXCEPT !.debts = w.debtStates, !.emergencyBal = w.emergency]

\* what a month's writes leave of the derived goals: debtStates and collegeAccts
\* are built by map with an object spread, so the writes land on fresh objects
GoalsAfter(goals, w) == goals

\* one iteration of simulate's loop: growth, allocation, snapshot, goal check
SimulateMonth ==
  /\ pc = "simulate" /\ sim.month <= maxMonths(g)
  /\ g' = GoalsAfter(g, MonthBody(g, sim, budget))
  /\ LET w == MonthBody(g, sim, budget)
     IN IF AllGoalsMet(g, sim.month, w)
          THEN /\ sim' = w
               /\ result' = [success |-> TRUE, timeline |-> w.timeline]
               /\ evals' = evals \cup {<<budget, TRUE>>}
               /\ pc' = "returned"
          ELSE /\ sim' = [w EXCEPT !.month = @ + 1]
               /\ UNCHANGED <<result, evals, pc>>
  /\ UNCHANGED <<engine, event, lo, hi, bestBudget, bestTimeline, iter, caller,
                 budget, simResult, response>>
  /\ UNCHANGED harnessVars

\* the horizon is exhausted: success from the final state
SimulateExhausted ==
  /\ pc = "simulate" /\ sim.month > maxMonths(g)
  /\ result' = [success |-> FinalSuccess(g, sim), timeline |-> sim.timeline]
  /\ evals' = evals \cup {<<budget, FinalSuccess(g, sim)>>}
  /\ pc' = "returned"
  /\ UNCHANGED <<engine, event, g, lo, hi, bestBudget, bestTimeline, iter, caller,
                 budget, sim, simResult, response>>
  /\ UNCHANGED harnessVars

MaxIter == IF engine = "goals" THEN MaxIterGoals ELSE MaxIterOptimize

\* const simResult = simulate(monthlyBudget)
FixedBudgetReturn ==
  /\ pc = "returned" /\ caller = "fixed"
  /\ simResult' = result
  /\ pc' = "search"
  /\ UNCHANGED <<engine, event, g, lo, hi, bestBudget, bestTimeline, iter, caller,
                 budget, sim, result, evals, response>>
  /\ UNCHANGED harnessVars

\* for (let i = 0; i < MaxIter; i++) { const mid = (lo + hi) / 2; simulate(mid) ...
SearchIterate ==
  /\ pc = "search"
  /\ IF iter < MaxIter
       THEN /\ budget' = (lo + hi) \div 2
            /\ sim' = SimStart(g)
            /\ caller' = "search"
            /\ pc' = "simulate"
       ELSE /\ pc' = "searched"
            /\ UNCHANGED <<budget, sim, caller>>
  /\ UNCHANGED <<engine, event, g, lo, hi, bestBudget, bestTimeline, iter, result,
                 simResult, evals, response>>
  /\ UNCHANGED harnessVars

\* variants of the update: best taken from every midpoint; lo moved past every midpoint
BestAlways(success, mid, best) == mid
LoAlways(success, mid, l) == mid + Dollars(1)

\* variant: best keeps the larger of the two budgets
BestLargest(success, mid, best) == IF success THEN Max(mid, best) ELSE best

\* the update of best, the bracket end moved
BestAfter(success, mid, best) == IF success THEN mid ELSE best
HiAfter(success, mid, h) == IF success THEN mid - Dollars(1) ELSE h
LoAfter(success, mid, l) == IF success THEN l ELSE mid + Dollars(1)

\* ... if (result.success) {...} else {...}; if (hi - lo < 5) break; }
SearchUpdate ==
  /\ pc = "returned" /\ caller = "search"
  /\ bestBudget' = BestAfter(result.success, budget, bestBudget)
  /\ hi' = HiAfter(result.success, budget, hi)
  /\ lo' = LoAfter(result.success, budget, lo)
  /\ bestTimeline' = IF engine = "goals" /\ result.success THEN result.timeline
                     ELSE bestTimeline
  /\ IF hi' - lo' < Dollars(5)
       THEN pc' = "searched" /\ iter' = iter
       ELSE pc' = "search" /\ iter' = iter + 1
  /\ mids' = Append(mids, <<budget, result.success>>)
  /\ UNCHANGED <<engine, event, g, caller, budget, sim, result, simResult, evals,
                 response, probe, pair>>

\* const finalResult = simulate(bestBudget)    (goals engine)
FinalSimulate ==
  /\ pc = "searched" /\ engine = "goals"
  /\ budget' = bestBudget
  /\ sim' = SimStart(g)
  /\ caller' = "final"
  /\ pc' = "simulate"
  /\ UNCHANGED <<engine, event, g, lo, hi, bestBudget, bestTimeline, iter, result,
                 simResult, evals, response>>
  /\ UNCHANGED harnessVars

\* the timeline the goals engine keeps after the final call
TimelineAfterFinal(finalResult, best) ==
  IF finalResult.success THEN finalResult.timeline ELSE best

\* if (finalResult.success) bestTimeline = finalResult.timeline
FinalReturn ==
  /\ pc = "returned" /\ caller = "final"
  /\ bestTimeline' = TimelineAfterFinal(result, bestTimeline)
  /\ pc' = "respond"
  /\ UNCHANGED <<engine, event, g, lo, hi, bestBudget, iter, caller, budget, sim,
                 result, simResult, evals, response>>
  /\ UNCHANGED harnessVars

\* the optimize engine has no final call
SkipFinal ==
  /\ pc = "searched" /\ engine = "optimize"
  /\ pc' = "respond"
  /\ UNCHANGED <<engine, event>> /\ UNCHANGED calcVars /\ UNCHANGED response

\* the results object and the 200 response
Respond ==
  /\ pc = "respond"
  /\ response' =
       [statusCode |-> 200,
        headers |-> [ContentType |-> "application/json", CacheControl |-> "no-store"],
        body |->
          IF engine = "goals"
            THEN [minimumMonthly |-> Round(bestBudget), timeline |-> bestTimeline,
                  naiveTotalMonthly |-> g.naiveTotalMonthly]
            ELSE [optimalBudget |-> Round(bestBudget), timeline |-> simResult.timeline,
                  allGoalsMet |-> simResult.success,
                  retireTarget |-> g.retireTarget]]
  /\ pc' = "done"
  /\ UNCHANGED <<engine, event>> /\ UNCHANGED calcVars

Next ==
  \/ MethodNotAllowed \/ ParseError \/ NullInput \/ InvalidInput \/ SanitizeError
  \/ Calculate
  \/ SimulateMonth \/ SimulateExhausted
  \/ FixedBudgetReturn \/ SearchIterate \/ SearchUpdate
  \/ FinalSimulate \/ FinalReturn \/ SkipFinal \/ Respond

Spec == Init /\ [][Next]_vars

(***************************************************************************)
(* Replayed calls: after the search, simulate is called again on the same  *)
(* goals at budgets around the bracket and at the returned budget.         *)
(***************************************************************************)
Tolerance == Dollars(7)

\* the budgets replayed, the returned one last
ProbeBudgets(goals, best) ==
  <<0,
    SearchLo(goals.naiveTotalMonthly),
    Max(0, best - Tolerance),
    SearchHi(goals.afterTaxMonthly, goals.naiveTotalMonthly),
    best>>

Answered == pc = "done" /\ g # None

Probe ==
  /\ Answered /\ pair = None
  /\ probe < Len(ProbeBudgets(g, bestBudget))
  /\ probe' = probe + 1
  /\ budget' = ProbeBudgets(g, bestBudget)[probe + 1]
  /\ sim' = SimStart(g)
  /\ caller' = "probe"
  /\ pc' = "simulate"
  /\ UNCHANGED <<engine, event, g, lo, hi, bestBudget, bestTimeline, iter, result,
                 simResult, evals, response, pair, mids>>

ProbeReturn ==
  /\ pc = "returned" /\ caller = "probe"
  /\ pc' = "done"
  /\ UNCHANGED <<engine, event, g, lo, hi, bestBudget, bestTimeline, iter, caller,
                 budget, sim, result, simResult, evals, response, probe, pair, mids>>

NextProbe == Next \/ Probe \/ ProbeReturn

SpecProbe == Init /\ [][NextProbe]_vars

Probed == Answered /\ probe = Len(ProbeBudgets(g, bestBudget))

(***************************************************************************)
(* Paired calls: simulate(b1) and simulate(b2), b1 < b2, on the same goals *)
(* advanced month by month together, for as long as both are running.      *)
(***************************************************************************)
PairBudgets(goals, best) ==
  {SearchLo(goals.naiveTotalMonthly), Max(0, best - Tolerance), best,
   SearchHi(goals.afterTaxMonthly, goals.naiveTotalMonthly)}

PairStart ==
  /\ Answered /\ probe = 0 /\ pair = None
  /\ \E b1, b2 \in PairBudgets(g, bestBudget) :
       /\ b1 < b2
       /\ pair' = [b1 |-> b1, b2 |-> b2, s1 |-> SimStart(g), s2 |-> SimStart(g),
                   month |-> 0, done1 |-> FALSE, done2 |-> FALSE]
  /\ pc' = "pair"
  /\ UNCHANGED <<engine, event, g, lo, hi, bestBudget, bestTimeline, iter, caller,
                 budget, sim, result, simResult, evals, response, probe, mids>>

\* both calls run the loop body of month pair.month; done1, done2 tell which returned
PairMonth ==
  /\ pc = "pair" /\ pair.month <= maxMonths(g) /\ ~pair.done1 /\ ~pair.done2
  /\ LET m  == pair.month
         w1 == MonthBody(g, [pair.s1 EXCEPT !.month = m], pair.b1)
         w2 == MonthBody(g, [pair.s2 EXCEPT !.month = m], pair.b2)
     IN pair' = [pair EXCEPT !.s1 = w1, !.s2 = w2, !.month = m + 1,
                             !.done1 = AllGoalsMet(g, m, w1),
                             !.done2 = AllGoalsMet(g, m, w2)]
  /\ UNCHANGED <<pc, engine, event, g, lo, hi, bestBudget, bestTimeline, iter, caller,
                 budget, sim, result, simResult, evals, response, probe, mids>>

NextPair == Next \/ PairStart \/ PairMonth

SpecPair == Init /\ [][NextPair]_vars

\* how many of the four goal predicates hold after month m
Count(b) == IF b THEN 1 ELSE 0
GoalsMet(goals, m, w) ==
  Count(eMet(goals, w)) + Count(dMet(w)) + Count(rMet(goals, m, w))
  + Count(cMet(goals, m, w))

(***************************************************************************)
(* Properties of the search: closure and minimality                        *)
(***************************************************************************)
\* b lies in the initial search bracket [lo, hi]
InBracket(goals, b) ==
  /\ SearchLo(goals.naiveTotalMonthly) <= b
  /\ b <= SearchHi(goals.afterTaxMonthly, goals.naiveTotalMonthly)

\* C1 (closure): in both engines simulate, called again at the budget the search
\* settled on, reports success, unless no budget of the initial bracket that
\* simulate was ever called with (midpoints, lo, hi, the fixed budget) succeeded;
\* and all through the search the best budget so far either is still the initial
\* hi or has been seen to succeed.
C1_Closure ==
  /\ Probed =>
        /\ budget = bestBudget
        /\ result.success \/ \A e \in evals : InBracket(g, e[1]) => ~e[2]
  /\ g # None =>
        \/ bestBudget = SearchHi(g.afterTaxMonthly, g.naiveTotalMonthly)
        \/ <<bestBudget, TRUE>> \in evals

\* the replay of the optimize engine's optBudget succeeds after a search in which
\* some midpoint failed
C1_Witness ==
  /\ Probed /\ engine = "optimize" /\ budget = bestBudget /\ result.success
  /\ \E e \in evals : InBracket(g, e[1]) /\ ~e[2]

\* C2 (minimality, as stated): no budget smaller than the returned one makes
\* simulate succeed.
C2_Minimal ==
  Probed => \A e \in evals : e[2] => e[1] >= bestBudget

\* C2 (minimality, to the tolerance of the search): no budget of the initial
\* bracket that is smaller than the returned one by Tolerance or more makes
\* simulate succeed.
C2_MinimalWithinTolerance ==
  Probed => \A e \in evals : (e[2] /\ InBracket(g, e[1])) => e[1] > bestBudget - Tolerance

\* the returned budget succeeds and the budget Tolerance below it, still in the
\* bracket, fails
C2_Witness ==
  /\ Probed /\ InBracket(g, bestBudget - Tolerance)
  /\ <<bestBudget, TRUE>> \in evals /\ <<bestBudget - Tolerance, FALSE>> \in evals

(***************************************************************************)
(* Properties of simulate                                                  *)
(***************************************************************************)
Simulating == pc \in {"simulate", "returned"} /\ sim # None

\* the least whole amount that is at least pct percent of t
Needed(t, pct) == (t \div 100) * pct + ((t % 100) * pct + 99) \div 100

\* C3: after every month's allocation each balance of the call (emergency, every
\* debt, retirement, every college account, brokerage) is non-negative, and so
\* is each balance recorded in a timeline entry.
C3_NonNegative ==
  Simulating =>
    /\ sim.emergency >= 0 /\ sim.retirement >= 0 /\ sim.brokerage >= 0
    /\ \A i \in DOMAIN sim.debtStates : sim.debtStates[i].balance >= 0
    /\ \A i \in DOMAIN sim.collegeAccts : sim.collegeAccts[i].balance >= 0
    /\ \A k \in DOMAIN sim.timeline :
         /\ sim.timeline[k].emergency >= 0 /\ sim.timeline[k].totalDebt >= 0
         /\ sim.timeline[k].retirement >= 0 /\ sim.timeline[k].college >= 0
         /\ sim.timeline[k].brokerage >= 0

\* a scheduled payment has just cleared a debt that was open at month 0
C3_Witness ==
  /\ pc = "simulate" /\ sim.month > 0 /\ sim.alloc.debts > 0
  /\ \E i \in DOMAIN sim.debtStates :
       sim.debtStates[i].balance = 0 /\ g.debts[i].balance > 0

\* C4 (soundness of success): when simulate returns success = true, at the
\* returning month the emergency balance is at least 95% of its target, every debt
\* balance is below 1, the month is at or past the retirement month with the
\* retirement balance at least 90% (goals engine) or 95% (optimize engine) of its
\* target, and every child whose enrollment month has passed holds at least 90%
\* of that child's target.
C4_SuccessSound ==
  (pc = "returned" /\ result.success) =>
    /\ sim.emergency >= Needed(g.emergencyTarget, 95)
    /\ \A i \in DOMAIN sim.debtStates : sim.debtStates[i].balance < Dollars(1)
    /\ sim.month >= g.monthsToRetire
    /\ sim.retirement >= Needed(g.retireTarget, IF engine = "goals" THEN 90 ELSE 95)
    /\ \A i \in DOMAIN sim.collegeAccts :
         sim.month >= sim.collegeAccts[i].monthsUntil =>
           sim.collegeAccts[i].balance >= Needed(sim.collegeAccts[i].target, 90)

\* a successful return with a debt paid down, a funded retirement and a child
\* past enrollment
C4_Witness ==
  /\ pc = "returned" /\ result.success
  /\ g.retireTarget > 0 /\ g.emergencyTarget > 0
  /\ \E i \in DOMAIN sim.collegeAccts :
       sim.month >= sim.collegeAccts[i].monthsUntil /\ sim.collegeAccts[i].target > 0

\* some goal has a strictly positive target
PositiveTarget(goals) ==
  \/ goals.emergencyTarget > 0 \/ goals.retireTarget > 0
  \/ \E i \in DOMAIN goals.debts : goals.debts[i].balance > 0
  \/ \E i \in DOMAIN goals.collegeGoals : goals.collegeGoals[i].target > 0

\* C5 (as stated): simulate(0) never succeeds for a goal set with a strictly
\* positive target, whatever the starting balances.
C5_ZeroBudget ==
  (g # None /\ PositiveTarget(g)) => <<0, TRUE>> \notin evals

\* the starting balances leave a goal short that only money can close
Unmet(goals) ==
  \/ goals.emergencyBal < Needed(goals.emergencyTarget, 95)
  \/ \E i \in DOMAIN goals.debts : goals.debts[i].balance >= Dollars(1)
  \/ goals.retireTarget > 0 /\ goals.retirementBal = 0
  \/ /\ goals.hasKids /\ goals.collegeBal = 0
     /\ \E i \in DOMAIN goals.collegeGoals :
          /\ goals.collegeGoals[i].target > 0
          /\ goals.collegeGoals[i].monthsUntil <= goals.monthsToRetire

\* C5 (restated): simulate(0) never succeeds when the starting balances leave a
\* goal short: the emergency balance below 95% of its target, a debt of 1 or
\* more, a positive retirement target with no retirement balance, or a child with
\* a positive target, no college balance and enrollment by the retirement month.
C5_ZeroBudgetUnmet ==
  (g # None /\ Unmet(g)) => <<0, TRUE>> \notin evals

\* simulate(0) has returned failure for the goals engine on goals with a debt
C5_Witness ==
  /\ pc = "returned" /\ budget = 0 /\ ~result.success /\ engine = "goals"
  /\ Unmet(g) /\ g.debts # <<>>

\* C6 (budget monotonicity): for two calls of simulate on the same goals with
\* b1 < b2, after every month both calls have run the number of goal predicates
\* met under b2 is at least the number met under b1, and if the call with b1
\* returns success at that month so does the call with b2; and among all the
\* calls the program makes, a budget at least as large as one that succeeded
\* succeeds.
C6_Monotone ==
  /\ \A e1, e2 \in evals : (e1[1] <= e2[1] /\ e1[2]) => e2[2]
  /\ (pc = "pair" /\ pair.month > 0) =>
       /\ GoalsMet(g, pair.month - 1, pair.s2) >= GoalsMet(g, pair.month - 1, pair.s1)
       /\ pair.done1 => pair.done2

\* at some month the larger budget has strictly more predicates met
C6_Witness ==
  /\ pc = "pair" /\ pair.month > 0 /\ pair.b1 > 0
  /\ GoalsMet(g, pair.month - 1, pair.s2) > GoalsMet(g, pair.month - 1, pair.s1)

\* C7 (trial isolation): no step of a simulate call changes the derived goals
\* (each debts[i].balance, each collegeGoals[i] entry) or the starting balances, a
\* call returns the success flag every earlier call with the same budget returned,
\* and a call at a budget whose timeline the program kept returns that timeline.
C7_Step ==
  /\ g # None => g' = g
  /\ (pc = "simulate" /\ pc' = "returned") =>
       /\ \A e \in evals : e[1] = budget => e[2] = result'.success
       /\ (engine = "goals" /\ budget = bestBudget /\ bestTimeline # <<>>) =>
            result'.timeline = bestTimeline
       /\ (engine = "optimize" /\ caller = "probe" /\ probe = 1
           /\ event.json.monthlyBudget.value = 0) =>
            result'.timeline = simResult.timeline
C8_EmergencyIdle ==
  (Simulating /\ g.emergencyBal >= g.emergencyTarget) =>
    sim.alloc.emergency = 0 /\ sim.emergency = g.emergencyBal

\* a funded emergency goal with a positive target, a year into a call whose
\* budget goes to retirement
C8_Witness ==
  /\ pc = "simulate" /\ sim.month > 12 /\ budget > 0
  /\ g.emergencyTarget > 0 /\ g.emergencyBal >= g.emergencyTarget
  /\ sim.alloc.retirement > 0

\* no emergency gap, one debt with a payoff horizon, and a budget that covers its
\* amortization payment
C9_Case ==
  /\ Simulating /\ Len(g.debts) = 1 /\ g.debts[1].months > 0
  /\ g.emergencyBal >= g.emergencyTarget
  /\ budget >= g.debts[1].monthlyPmt

\* C9: with no emergency gap and a single debt, a budget of at least the debt's
\* amortization payment brings the balance below 1 at or before the month index
\* equal to the payoff horizon.
C9_PaidByHorizon ==
  (C9_Case /\ sim.month > g.debts[1].months) => sim.debtStates[1].balance < Dollars(1)

\* the scenario's debt, 10000 at 22% over 24 months, just after month 24
C9_Witness ==
  /\ C9_Case /\ pc = "simulate"
  /\ g.debts[1].balance = Dollars(10000) /\ g.debts[1].apr = 2200
  /\ g.debts[1].months = 24 /\ sim.month = 25
  /\ sim.debtStates[1].balance < Dollars(1)

\* C10: the timeline the goals engine returns is the timeline of the final
\* simulate call at the returned budget: non-empty, starting with the month-0
\* entry.
C10_FinalTimeline ==
  (pc = "done" /\ engine = "goals" /\ g # None) =>
    /\ response.body.timeline = result.timeline
    /\ Len(response.body.timeline) > 0
    /\ response.body.timeline[1].month = 0

(***************************************************************************)
(* Properties of the handler                                               *)
(***************************************************************************)
\* the body carries no non-negative number under field f
Lacks(json, f) == IF json = JsonNull THEN TRUE ELSE Invalid(json, f)

\* the request fails the validation of its engine
Rejected ==
  \/ Lacks(event.json, "income")
  \/ engine = "optimize" /\ Lacks(event.json, "monthlyBudget")

GenericError == response.body = ErrorBody("Calculation error")
NeverCalculated == g = None /\ evals = {} /\ sim = None /\ result = None

\* C11 (handler outcome mapping): a non-POST request is answered 405 whether or
\* not its body parses; a POST whose body does not parse is answered 500 with the
\* generic error body; a POST whose income (or, in the optimize engine,
\* monthlyBudget) is missing, not a number or negative is answered 400; a POST
\* that throws after the validation is answered 500 with the generic error body;
\* in none of these has calculate run or does the body carry results; every
\* other request is answered 200 with Cache-Control: no-store.
C11_OutcomeMapping ==
  (pc = "done" /\ probe = 0 /\ pair = None) =>
    IF event.httpMethod # "POST"
      THEN response.statusCode = 405 /\ NeverCalculated
    ELSE IF ~event.parses
      THEN response.statusCode = 500 /\ GenericError /\ NeverCalculated
    ELSE IF Rejected
      THEN response.statusCode = 400 /\ NeverCalculated
    ELSE IF KidAgesThrows(engine, event.json)
      THEN response.statusCode = 500 /\ GenericError /\ NeverCalculated
    ELSE /\ response.statusCode = 200
         /\ response.headers.CacheControl = "no-store"
         /\ g # None

(***************************************************************************)
(* Properties of simulate's loop and of the waterfall                      *)
(***************************************************************************)
\* the four goal predicates on the balances w left by month m, the retirement
\* one with its month test
FourHold(goals, m, w) ==
  /\ w.emergency >= Needed(goals.emergencyTarget, 95)
  /\ \A i \in DOMAIN w.debtStates : w.debtStates[i].balance < Dollars(1)
  /\ m >= goals.monthsToRetire
  /\ w.retirement >= Needed(goals.retireTarget, IF goals.engine = "goals" THEN 90 ELSE 95)
  /\ goals.hasKids =>
       \A i \in DOMAIN w.collegeAccts :
         m >= w.collegeAccts[i].monthsUntil =>
           w.collegeAccts[i].balance >= Needed(w.collegeAccts[i].target, 90)

\* C12 (early termination): a month of simulate's loop returns success = true
\* exactly when the four goal predicates hold on the balances it leaves and the
\* month is at or past the retirement month, and otherwise goes on to the next
\* month, so the return is at the first such month; the returned timeline holds
\* the yearly entries up to that month and none after it; and once the call has
\* returned its state is not advanced again.
C12_Step ==
  /\ (pc = "simulate" /\ sim.month <= maxMonths(g)) =>
       /\ (pc' = "returned") = FourHold(g, sim.month, sim')
       /\ pc' = "returned" =>
            /\ result'.success /\ sim'.month = sim.month
            /\ sim.month >= g.monthsToRetire
            /\ Len(result'.timeline) = sim.month \div 12 + 1
            /\ \A k \in DOMAIN result'.timeline :
                 /\ result'.timeline[k].age = g.currentAge + (k - 1)
                 /\ engine = "goals" => result'.timeline[k].month = 12 * (k - 1)
       /\ pc' # "returned" => pc' = "simulate" /\ sim'.month = sim.month + 1
  /\ pc = "returned" => sim' = sim \/ sim' = SimStart(g)
C12_EarlyTermination == [][C12_Step]_vars

\* the loop goes on before the retirement month on balances that pass the test
\* of the retirement month, with positive targets
C12_Witness ==
  /\ pc = "simulate" /\ sim.month > 0 /\ sim.month < g.monthsToRetire
  /\ g.emergencyTarget > 0 /\ g.retireTarget > 0 /\ g.debts # <<>>
  /\ FourHold(g, g.monthsToRetire, sim)

\* C13: a call of simulate that runs through the whole horizon returns
\* success = false, a successful return is always an early one, and on the
\* state the loop leaves the final evaluation agrees with the goal check of
\* month maxMonths.
C13_ExhaustedFails ==
  /\ (pc = "returned" /\ sim.month > maxMonths(g)) => ~result.success
  /\ (pc = "returned" /\ result.success) => sim.month <= maxMonths(g)
  /\ (pc = "simulate" /\ sim.month > maxMonths(g)) =>
       (FinalSuccess(g, sim) = AllGoalsMet(g, maxMonths(g), sim))

\* a call with a child has run out of months with the emergency fund and the debts
\* settled
C13_Witness ==
  /\ pc = "returned" /\ sim.month > maxMonths(g) /\ ~result.success
  /\ g.hasKids /\ g.debts # <<>> /\ eMet(g, sim) /\ dMet(sim)

\* the working state a month starts its allocation from
MonthStart(goals, s, b) ==
  [Growth(goals, s.month, s) EXCEPT !.available = b, !.alloc = NoAlloc]

\* the working states between the buckets of month s.month, in the engine's order
Stages(goals, s, b) ==
  LET w1 == EmergencyFund(goals, MonthStart(goals, s, b))
      w2 == DebtPayments(w1, 1)
      w3 == Match401k(goals, s.month, w2)
      w4 == IF goals.engine = "optimize" THEN ExtraDebtPayoff(w3, 1) ELSE w3
      w5 == CollegeSavings(goals, s.month, w4)
      w6 == AdditionalRetirement(goals, s.month, w5)
  IN <<MonthStart(goals, s, b), w1, w2, w3, w4, w5, w6, BrokerageOverflow(w6)>>

\* what the buckets claimed of the budget, the employer match left out
Claimed(alloc) ==
  alloc.emergency + alloc.debts + alloc.extraDebt + alloc.match401k + alloc.college
  + alloc.retirement + alloc.brokerage

\* every bucket leaves `available` between 0 and what it received, and the claims
\* add up to the budget
Conserved(st, b) ==
  /\ st[1].available = b
  /\ \A i \in 2..Len(st) :
       0 <= st[i].available /\ st[i].available <= st[i - 1].available
  /\ st[Len(st)].alloc.brokerage = st[Len(st)].available
  /\ Claimed(st[Len(st)].alloc) = b
  /\ st[Len(st)].retirement =
       st[1].retirement + st[Len(st)].alloc.match401k + st[Len(st)].alloc.matchBonus
       + st[Len(st)].alloc.retirement

\* C14 (waterfall conservation): in every month of every call with a budget >= 0,
\* `available` starts at the budget and stays within [0, budget] after each
\* bucket, never growing from one bucket to the next; what is left after
\* additional retirement is what brokerage takes; the amounts claimed by
\* emergency, debts (both passes), match contribution, college, additional
\* retirement and brokerage add up to the budget exactly; and the retirement
\* balance gains the match contribution, the employer match on top, and the
\* additional retirement amount.
C14_Conservation ==
  /\ (pc = "simulate" /\ sim.month <= maxMonths(g) /\ budget >= 0) =>
       /\ Conserved(Stages(g, sim, budget), budget)
       /\ Stages(g, sim, budget)[8] = Allocate(g, sim.month, MonthStart(g, sim, budget))
  /\ (Simulating /\ budget >= 0 /\ (sim.month > 0 \/ pc = "returned")) =>
       Claimed(sim.alloc) = budget

\* a month in which emergency, debts, match and additional retirement all claimed
\* part of the budget
C14_Witness ==
  /\ pc = "simulate" /\ sim.month > 0 /\ budget > 0
  /\ sim.alloc.emergency > 0 /\ sim.alloc.debts > 0 /\ sim.alloc.match401k > 0
  /\ sim.alloc.matchBonus > 0 /\ sim.alloc.retirement > 0

\* the emergency gap the month just run started from
GapBefore == g.emergencyTarget - (sim.emergency - sim.alloc.emergency)

\* C15 (emergency bucket): in every month the amount the emergency fund claims
\* is at most max(100, one sixth of the remaining gap) and at most the remaining
\* gap, so a claim never leaves the emergency balance above the target.
C15_EmergencyClamped ==
  (Simulating /\ sim.alloc.emergency > 0) =>
    /\ 6 * sim.alloc.emergency <= Max(6 * Dollars(100), GapBefore)
    /\ sim.alloc.emergency <= GapBefore
    /\ sim.emergency <= g.emergencyTarget

\* a month of the call has run, and which one
MonthRan == Simulating /\ (sim.month > 0 \/ pc = "returned")
RanMonth == IF pc = "returned" /\ result.success THEN sim.month ELSE sim.month - 1

\* what the month's budget had left after the emergency bucket and the scheduled
\* debt payments, and the debt still open at that point
LeftAfterScheduled == budget - sim.alloc.emergency - sim.alloc.debts
DebtAfterScheduled == SumOver(sim.debtStates, "balance") + sim.alloc.extraDebt

\* what the match bucket claims of avail in the month that ran
MatchOf(avail) ==
  IF g.has401k /\ avail > 0 /\ RanMonth < g.monthsToRetire
    THEN Min(avail, g.monthlyMatchableContrib)
    ELSE 0

\* C16 (as stated): in the optimize engine the extra debt pass takes the budget
\* left after the scheduled payments, up to the debt still open, and the match
\* bucket claims only from what the extra pass leaves.
C16_ExtraBeforeMatch ==
  (MonthRan /\ engine = "optimize") =>
    /\ sim.alloc.extraDebt = Min(LeftAfterScheduled, DebtAfterScheduled)
    /\ sim.alloc.match401k = MatchOf(LeftAfterScheduled - sim.alloc.extraDebt)

\* C16 (restated): in the optimize engine the match bucket comes first: it claims
\* from the budget left after the scheduled payments, also while a debt is open,
\* and the extra debt pass takes what the match bucket leaves, up to the debt
\* still open, over debts held in descending order of APR; money reaches college,
\* retirement or brokerage only in a month that leaves no debt open.
C16_MatchBeforeExtra ==
  (MonthRan /\ engine = "optimize") =>
    /\ sim.alloc.match401k = MatchOf(LeftAfterScheduled)
    /\ sim.alloc.extraDebt =
         Min(LeftAfterScheduled - sim.alloc.match401k, DebtAfterScheduled)
    /\ \A i, j \in DOMAIN sim.debtStates :
         i < j => sim.debtStates[i].apr >= sim.debtStates[j].apr
    /\ SumOver(sim.debtStates, "balance") > 0 =>
         sim.alloc.college + sim.alloc.retirement + sim.alloc.brokerage = 0

\* a month in which the match bucket claimed, the extra pass paid, and a debt is
\* still open
C16_Witness ==
  /\ MonthRan /\ engine = "optimize"
  /\ sim.alloc.match401k > 0 /\ sim.alloc.extraDebt > 0
  /\ SumOver(sim.debtStates, "balance") > 0

\* the match bucket took working state `before` to `after` in month m
MatchExact(goals, m, before, after) ==
  IF goals.has401k /\ m < goals.monthsToRetire
    THEN /\ after.available =
              before.available - Min(before.available, goals.monthlyMatchableContrib)
         /\ after.retirement =
              before.retirement + Min(before.available, goals.monthlyMatchableContrib)
              + MulDiv(Min(before.available, goals.monthlyMatchableContrib),
                       goals.matchPercent, 100)
         /\ after.alloc.match401k = Min(before.available, goals.monthlyMatchableContrib)
    ELSE /\ after.available = before.available /\ after.retirement = before.retirement
         /\ after.alloc.match401k = 0 /\ after.alloc.matchBonus = 0

\* C17 (match capture): in a month before the retirement month with the employer
\* match enabled, the match bucket lowers `available` by exactly
\* c = min(available, matchable ceiling) and raises the retirement balance by c
\* plus matchPercent per cent of c; in a month at or after the retirement month,
\* or with the match disabled, it claims 0 and adds nothing; and the month's
\* recorded match is that claim.
C17_MatchCapture ==
  /\ (pc = "simulate" /\ sim.month <= maxMonths(g)) =>
       MatchExact(g, sim.month, Stages(g, sim, budget)[3], Stages(g, sim, budget)[4])
  /\ MonthRan =>
       /\ sim.alloc.match401k = MatchOf(LeftAfterScheduled)
       /\ sim.alloc.matchBonus = MulDiv(sim.alloc.match401k, g.matchPercent, 100)

\* a month before retirement in which the match bucket took all that was left,
\* less than the ceiling, and the employer match came on top
C17_Witness ==
  /\ pc = "simulate" /\ sim.month > 0 /\ sim.month < g.monthsToRetire
  /\ sim.alloc.match401k > 0 /\ sim.alloc.match401k < g.monthlyMatchableContrib
  /\ sim.alloc.matchBonus > 0 /\ sim.alloc.retirement = 0

\* the brokerage balance after the growth of month m
BrokerageGrown(m, b) == IF m = 0 THEN b ELSE Grow(b, BrokerageRate)

\* C18: a month strictly before the retirement month sweeps all the budget left
\* after the college bucket into retirement and gives brokerage 0, so the
\* brokerage balance changes by its fixed growth only; a month at or after the
\* retirement month sweeps nothing into retirement and adds what is left to the
\* grown brokerage balance.
C18_Step ==
  (pc = "simulate" /\ sim.month <= maxMonths(g)) =>
    IF sim.month < g.monthsToRetire
      THEN /\ sim'.alloc.brokerage = 0
           /\ sim'.brokerage = BrokerageGrown(sim.month, sim.brokerage)
           /\ sim'.alloc.retirement =
                budget - (sim'.alloc.emergency + sim'.alloc.debts + sim'.alloc.extraDebt
                          + sim'.alloc.match401k + sim'.alloc.college)
      ELSE /\ sim'.alloc.retirement = 0
           /\ sim'.brokerage =
                BrokerageGrown(sim.month, sim.brokerage) + sim'.alloc.brokerage
C18_BrokerageAfterRetirement == [][C18_Step]_vars

\* every month before the retirement month has run, the last of them swept money
\* into retirement, and a brokerage balance that started positive has only grown
C18_Witness ==
  /\ pc = "simulate" /\ sim.month = g.monthsToRetire /\ g.brokerageBal > 0
  /\ sim.alloc.retirement > 0 /\ sim.alloc.brokerage = 0
  /\ sim.brokerage > g.brokerageBal

\* the retirement balance that meets the goal
RetireNeeded(goals) ==
  Needed(goals.retireTarget, IF goals.engine = "goals" THEN 90 ELSE 95)

\* C19: once the retirement month has been processed the retirement balance is
\* frozen: a month with an index above the retirement month leaves it as it was
\* (no growth, no match, no additional retirement), so a call whose retirement
\* balance is below the threshold after the retirement month does not return
\* success.
C19_Step ==
  (pc = "simulate" /\ sim.month > g.monthsToRetire) =>
    /\ sim'.retirement = sim.retirement
    /\ sim.month <= maxMonths(g) =>
         /\ sim'.alloc.match401k = 0 /\ sim'.alloc.matchBonus = 0
         /\ sim'.alloc.retirement = 0
    /\ sim.retirement < RetireNeeded(g) =>
         /\ sim'.retirement < RetireNeeded(g)
         /\ pc' = "returned" => ~result'.success
C19_RetirementFrozen == [][C19_Step]_vars

\* more than a year past the retirement month, with the match enabled and a
\* budget, the retirement balance is positive and short of the threshold
C19_Witness ==
  /\ pc = "simulate" /\ sim.month > g.monthsToRetire + 12 /\ budget > 0
  /\ g.has401k /\ sim.retirement > 0 /\ sim.retirement < RetireNeeded(g)

\* C20: zero is absorbing for a debt: a step of a simulate call leaves at 0 every
\* debt balance that was 0 (no interest accrues on it and no payment is made to
\* it), so that debt stays below the debts-met threshold; and a month in which
\* every debt is at 0 claims nothing for debts.
C20_Step ==
  pc = "simulate" =>
    /\ DOMAIN sim'.debtStates = DOMAIN sim.debtStates
    /\ \A i \in DOMAIN sim.debtStates :
         sim.debtStates[i].balance = 0 =>
           /\ sim'.debtStates[i].balance = 0
           /\ sim'.debtStates[i].balance < Dollars(1)
    /\ (sim.month <= maxMonths(g)
        /\ \A i \in DOMAIN sim.debtStates : sim.debtStates[i].balance = 0) =>
         sim'.alloc.debts = 0 /\ sim'.alloc.extraDebt = 0
C20_ZeroAbsorbing == [][C20_Step]_vars

\* of two debts the first has been paid off for more than a year while the
\* second still takes its payment
C20_Witness ==
  /\ pc = "simulate" /\ Len(sim.debtStates) = 2
  /\ g.debts[1].balance > 0 /\ sim.debtStates[1].balance = 0
  /\ sim.month > g.debts[1].months + 12
  /\ sim.debtStates[2].balance > 0 /\ sim.alloc.debts > 0

\* C21: in the optimize engine a month that leaves some debt with a positive
\* balance gave the college, additional-retirement and brokerage buckets 0 and
\* ended with nothing of the budget available; a month in which one of the three
\* received money left every debt at 0.
C21_DebtsFirst ==
  (MonthRan /\ engine = "optimize") =>
    /\ (\E i \in DOMAIN sim.debtStates : sim.debtStates[i].balance > 0) =>
         /\ sim.alloc.college = 0 /\ sim.alloc.retirement = 0
         /\ sim.alloc.brokerage = 0
         /\ sim.available = 0
    /\ (sim.alloc.college > 0 \/ sim.alloc.retirement > 0 \/ sim.alloc.brokerage > 0) =>
         \A i \in DOMAIN sim.debtStates : sim.debtStates[i].balance = 0

\* a month of a household with a child in which the extra pass paid and the debt
\* is still open
C21_Witness ==
  /\ MonthRan /\ engine = "optimize" /\ g.hasKids /\ budget > 0
  /\ sim.alloc.extraDebt > 0 /\ sim.alloc.college = 0
  /\ \E i \in DOMAIN sim.debtStates : sim.debtStates[i].balance > 0

(***************************************************************************)
(* Properties of the search loop                                           *)
(***************************************************************************)
\* the iterations whose midpoint succeeded
Succeeded == {k \in DOMAIN mids : mids[k][2]}

\* C22: after any number of iterations the best budget is the midpoint of the
\* latest successful iteration, which is the smallest successful midpoint so
\* far, or the initial hi when no midpoint has succeeded; the successful
\* midpoints are strictly decreasing in the order they were evaluated; and
\* every evaluated midpoint smaller than the best budget failed.
C22_BestIsSmallestSuccess ==
  g # None =>
    /\ IF Succeeded = {}
         THEN bestBudget = SearchHi(g.afterTaxMonthly, g.naiveTotalMonthly)
         ELSE /\ \E k \in Succeeded :
                   /\ bestBudget = mids[k][1]
                   /\ \A j \in Succeeded : j <= k
              /\ \A j \in Succeeded : mids[j][1] >= bestBudget
    /\ \A j, k \in Succeeded : j < k => mids[k][1] < mids[j][1]
    /\ \A k \in DOMAIN mids : mids[k][1] < bestBudget => ~mids[k][2]

\* an answered search with two successful midpoints and a failed one in between
C22_Witness ==
  /\ pc = "done" /\ g # None
  /\ \E i, j, k \in DOMAIN mids :
       i < j /\ j < k /\ mids[i][2] /\ ~mids[j][2] /\ mids[k][2]

\* C23: the search bracket is well formed and holds the result: the initial
\* lo = max(100, 0.3 naiveTotal) is at most the initial
\* hi = max(0.95 afterTaxMonthly, 2 naiveTotal), every midpoint evaluated lies
\* in the initial [lo, hi], and so does the best budget, for every request with
\* income >= 0.
C23_BracketWellFormed ==
  g # None =>
    /\ SearchLo(g.naiveTotalMonthly) <= SearchHi(g.afterTaxMonthly, g.naiveTotalMonthly)
    /\ \A k \in DOMAIN mids : InBracket(g, mids[k][1])
    /\ InBracket(g, bestBudget)

\* the horizon of a call: the months to retirement, every debt's payoff months,
\* every child's months until enrollment, and 480 at least
Horizon(goals) ==
  Max(480,
      Max(goals.monthsToRetire,
          Max(MaxOver(goals.debts, "months", 0),
              IF goals.hasKids THEN MaxOver(goals.collegeGoals, "monthsUntil", 0)
              ELSE 0)))

\* the iterations the search loop may make
IterationCap == IF engine = "goals" THEN 60 ELSE 40

\* a variant for termination: the stage calculate is in, then the iterations the
\* loop has left, then the months the running call has left
MonthsLeft == IF pc = "simulate" THEN 2000 - sim.month ELSE 0
Rank ==
  CASE pc = "handler" -> 1000000
    [] pc = "done" -> 0
    [] pc = "respond" -> 200000
    [] pc = "searched" -> 400000 + 2001
    [] pc = "search" -> 600000 + (IterationCap - Len(mids)) * 2002 + 2001
    [] OTHER ->
         (CASE caller = "fixed" -> 800000
            [] caller = "search" -> 600000 + (IterationCap - Len(mids)) * 2002
            [] OTHER -> 400000)
         + MonthsLeft

\* C24 (steps): a call of simulate starts at month 0, each step of it either
\* returns or moves the month index up by exactly one, and a call that finds no
\* success returns after month Horizon exactly, so a call runs at most
\* Horizon + 1 months; the search loop has made at most 60 (goals engine) or 40
\* (optimize engine) iterations, an update that leaves hi - lo < 5 ends the loop
\* and any other update goes on; and every step lowers the variant Rank, which
\* never goes below 0.
C24_Step ==
  /\ (pc # "simulate" /\ pc' = "simulate") => sim'.month = 0
  /\ pc = "simulate" =>
       /\ sim.month <= Horizon(g) + 1
       /\ \/ pc' = "simulate" /\ sim'.month = sim.month + 1 /\ sim.month <= Horizon(g)
          \/ pc' = "returned" /\ sim'.month = sim.month
       /\ sim.month = Horizon(g) + 1 => pc' = "returned"
       /\ (pc' = "returned" /\ ~result'.success) => sim.month = Horizon(g) + 1
  /\ Len(mids') <= IterationCap /\ iter' < IterationCap
  /\ (pc = "returned" /\ caller = "search") =>
       /\ Len(mids') = Len(mids) + 1
       /\ (pc' = "searched") = (hi' - lo' < Dollars(5))
       /\ pc' # "searched" => pc' = "search" /\ Len(mids') = iter'
  /\ Rank' < Rank /\ Rank' >= 0

\* C24 (termination): every step is as above, so no behaviour takes more steps
\* than the Rank of its first state: calculate returns.
C24_Terminates == [][C24_Step]_vars

\* a call has run through its whole horizon and returned, in a search that has
\* made several iterations
C24_Witness ==
  /\ pc = "returned" /\ sim.month = Horizon(g) + 1 /\ Len(mids) >= 3

(***************************************************************************)
(* Properties of the timeline                                              *)
(***************************************************************************)
\* entry e records month m on the balances w
Records(goals, e, m, w) ==
  /\ e.age = goals.currentAge + m \div 12
  /\ goals.engine = "goals" => e.month = m
  /\ e.emergency = Round(w.emergency)
  /\ e.retirement = Round(w.retirement)
  /\ e.brokerage = Round(w.brokerage)
  /\ e.totalDebt = Round(SumOver(w.debtStates, "balance"))
  /\ e.college = Round(SumOver(w.collegeAccts, "balance"))
  /\ e.netWorth = Round(w.emergency + w.retirement + SumOver(w.collegeAccts, "balance")
                        + w.brokerage - SumOver(w.debtStates, "balance"))

\* C25 (yearly snapshots): a month whose index is a multiple of 12, month 0
\* included, appends exactly one entry to the timeline, and no other month
\* changes the timeline; the entry records the balances the month's allocation
\* leaves, and its net worth is the rounded sum of the emergency, retirement,
\* college and brokerage balances less the total debt; a return in such a month
\* carries that month's entry; after last month m the timeline has m \div 12 + 1
\* entries, the k-th of them for month 12 (k - 1).
C25_Step ==
  /\ (pc = "simulate" /\ sim.month <= maxMonths(g)) =>
       /\ IF sim.month % 12 = 0
            THEN /\ Len(sim'.timeline) = Len(sim.timeline) + 1
                 /\ SubSeq(sim'.timeline, 1, Len(sim.timeline)) = sim.timeline
                 /\ Records(g, sim'.timeline[Len(sim'.timeline)], sim.month, sim')
            ELSE sim'.timeline = sim.timeline
       /\ Len(sim'.timeline) = sim.month \div 12 + 1
       /\ \A k \in DOMAIN sim'.timeline :
            /\ sim'.timeline[k].age = g.currentAge + (k - 1)
            /\ engine = "goals" => sim'.timeline[k].month = 12 * (k - 1)
  /\ (pc = "simulate" /\ pc' = "returned") => result'.timeline = sim'.timeline
C25_YearlySnapshots == [][C25_Step]_vars

\* a call with a debt and a retirement balance has returned success in a month
\* that is a multiple of 12, with that month's entry last in its timeline
C25_Witness ==
  /\ pc = "returned" /\ result.success /\ sim.month % 12 = 0 /\ sim.month > 0
  /\ g.debts # <<>> /\ result.timeline[1].totalDebt > 0
  /\ Len(result.timeline) = sim.month \div 12 + 1
  /\ result.timeline[Len(result.timeline)].retirement = Round(sim.retirement)
  /\ result.timeline[Len(result.timeline)].netWorth > 0

=============================================================================
